---------------------------- MODULE Spec2Model ----------------------------
(***************************************************************************)
(* A model of the Liquid template lexer (src/ext/src/lex.cpp, lex.h,       *)
(* strings.h): the scan cursor `State`, the regular expressions the        *)
(* default-constructed `Lexer` compiles, and the loop of `Lexer::Tokenize`.*)
(*                                                                         *)
(* Spec runs Tokenize once on a default lexer, CustomSpec on a lexer built *)
(* by the four-string constructor, RepeatSpec twice on one lexer, and      *)
(* CursorSpec calls the operations of `State` in any order.                *)
(*                                                                         *)
(* A string is a sequence of one-character strings.  Offsets are 0-based,  *)
(* as in the C++ code: the character at offset p of s is s[p + 1].         *)
(***************************************************************************)
EXTENDS Integers, Sequences, FiniteSets, TLC

(***************************************************************************)
(* Bounds of the model.                                                    *)
(***************************************************************************)
\* A source is a concatenation of at most MaxAtoms atoms ...
MaxAtoms == 4
\* ... or of at most MaxSegs template segments (whole constructs).
MaxSegs == 3
\* The number of tokens the stream has room for: at MaxTokens tokens the
\* next push_back finds no memory (it is above the number of tokens of any
\* scan that ends).
MaxTokens == 8

(***************************************************************************)
(* Characters and strings.                                                 *)
(***************************************************************************)
\* what std::regex's \s matches in the "C" locale (isspace); the vertical
\* tab, the sixth such character, has no TLA+ string escape and is left out
ReSpace == {" ", "\t", "\n", "\r", "\f"}

\* strings.h: notspace is false for exactly these four characters
notspace(ch) == ch \notin {"\n", " ", "\t", "\r"}

\* the character at 0-based offset p of s, "" past the end
CharAt(s, p) == IF p >= 0 /\ p < Len(s) THEN s[p + 1] ELSE ""

\* s.substr(pos, n)
substr(s, pos, n) == SubSeq(s, pos + 1, IF pos + n > Len(s) THEN Len(s) ELSE pos + n)

\* std::count(result.begin(), result.end(), '\n')
RECURSIVE count(_)
count(s) ==
    IF s = <<>> THEN 0
    ELSE (IF Head(s) = "\n" THEN 1 ELSE 0) + count(Tail(s))

\* str occurs in s at offset p
OccursAt(s, p, str) ==
    /\ p >= 0
    /\ p + Len(str) <= Len(s)
    /\ \A k \in 1..Len(str) : s[p + k] = str[k]

\* std::string::rfind(str, pos): the highest offset <= pos at which str
\* occurs, or npos (modelled as -1)
rfind(s, str, pos) ==
    LET hits == {i \in 0..pos : OccursAt(s, i, str)}
    IN  IF hits = {} THEN -1 ELSE CHOOSE i \in hits : \A j \in hits : j <= i

\* strings.h lstrip: erase up to the first character that is notspace
RECURSIVE lstrip(_)
lstrip(s) ==
    IF s = <<>> \/ notspace(Head(s)) THEN s ELSE lstrip(Tail(s))

\* strings.h rstrip: erase from after the last character that is notspace
RECURSIVE rstrip(_)
rstrip(s) ==
    IF s = <<>> \/ notspace(s[Len(s)]) THEN s ELSE rstrip(SubSeq(s, 1, Len(s) - 1))

\* strings.h strip
strip(s) == rstrip(lstrip(s))


(***************************************************************************)
(* The regular expressions (ECMAScript grammar of std::regex).  Each       *)
(* operator gives the length of the match that begins at offset i of s,    *)
(* or -1 when the pattern does not match there.  The character classes     *)
(* that follow one another in these patterns are disjoint, so the greedy   *)
(* choice is the only one backtracking can succeed with.                   *)
(***************************************************************************)
NoMatch == -1

\* \s* : the length of the longest run of \s characters at offset i
RECURSIVE re_whitespace(_, _)
re_whitespace(s, i) ==
    IF CharAt(s, i) \in ReSpace THEN 1 + re_whitespace(s, i + 1) ELSE 0

\* -? : 1 when a '-' is at offset i
Dash(s, i) == IF CharAt(s, i) = "-" THEN 1 ELSE 0

\* a faulty variant of re_statement_start_: \{\{-? , which leaves the
\* whitespace after the delimiter to the statement body
re_statement_start_nows(s, i) ==
    IF OccursAt(s, i, <<"{", "{">>) THEN 2 + Dash(s, i + 2) ELSE NoMatch

\* \{\{-?\s*
re_statement_start_(s, i) ==
    IF OccursAt(s, i, <<"{", "{">>)
    THEN 2 + Dash(s, i + 2) + re_whitespace(s, i + 2 + Dash(s, i + 2))
    ELSE NoMatch

\* \s*-?}}
re_statement_end_(s, i) ==
    LET w == re_whitespace(s, i)
        d == Dash(s, i + w)
    IN  IF OccursAt(s, i + w + d, <<"}", "}">>) THEN w + d + 2 ELSE NoMatch

\* \{%-?\s*
re_tag_start_(s, i) ==
    IF OccursAt(s, i, <<"{", "%">>)
    THEN 2 + Dash(s, i + 2) + re_whitespace(s, i + 2 + Dash(s, i + 2))
    ELSE NoMatch

\* \s*-?%}
re_tag_end_(s, i) ==
    LET w == re_whitespace(s, i)
        d == Dash(s, i + w)
    IN  IF OccursAt(s, i + w + d, <<"%", "}">>) THEN w + d + 2 ELSE NoMatch

\* \{[\{%]-?
re_literal_end_(s, i) ==
    IF CharAt(s, i) = "{" /\ CharAt(s, i + 1) \in {"{", "%"}
    THEN 2 + Dash(s, i + 2)
    ELSE NoMatch

\* a faulty variant of re_name_end_: -?%} only, a name does not end at
\* whitespace
re_name_end_nospace(s, i) ==
    IF OccursAt(s, i + Dash(s, i), <<"%", "}">>) THEN Dash(s, i) + 2
    ELSE NoMatch

\* \s|-?%}
re_name_end_(s, i) ==
    IF CharAt(s, i) \in ReSpace THEN 1
    ELSE IF OccursAt(s, i + Dash(s, i), <<"%", "}">>) THEN Dash(s, i) + 2
    ELSE NoMatch

\* \{%-?\s*endraw\s*-?%} : the part after "endraw", which ends at offset a
EndrawTail(s, i, a, w) ==
    IF OccursAt(s, a + w + Dash(s, a + w), <<"%", "}">>)
    THEN (a + w + Dash(s, a + w) + 2) - i
    ELSE NoMatch

\* \{%-?\s*endraw\s*-?%} : from "endraw", expected at offset a
EndrawWord(s, i, a) ==
    IF OccursAt(s, a, <<"e", "n", "d", "r", "a", "w">>)
    THEN EndrawTail(s, i, a + 6, re_whitespace(s, a + 6))
    ELSE NoMatch

\* \{%-?\s*endraw\s*-?%}
re_endraw(s, i) ==
    IF OccursAt(s, i, <<"{", "%">>)
    THEN EndrawWord(s, i, i + 2 + Dash(s, i + 2)
                          + re_whitespace(s, i + 2 + Dash(s, i + 2)))
    ELSE NoMatch

\* the compiled pattern objects, by name
MatchAt(pattern, s, i) ==
    CASE pattern = "re_statement_start_" -> re_statement_start_(s, i)
      [] pattern = "re_statement_end_"   -> re_statement_end_(s, i)
      [] pattern = "re_tag_start_"       -> re_tag_start_(s, i)
      [] pattern = "re_tag_end_"         -> re_tag_end_(s, i)
      [] pattern = "re_literal_end_"     -> re_literal_end_(s, i)
      [] pattern = "re_name_end_"        -> re_name_end_(s, i)
      [] pattern = "re_endraw"           -> re_endraw(s, i)
      [] pattern = "re_whitespace"       -> re_whitespace(s, i)

\* a std::smatch after a failed search: empty, str(0) is the empty string
NoSmatch == [matched |-> FALSE, position |-> 0, length |-> 0, str0 |-> <<>>]

\* a std::smatch for the match of length n at offset i, searched from `from`:
\* position(0) (which is also prefix().length()), length(0) and str(0)
Smatch(s, from, i, n) ==
    [matched |-> TRUE, position |-> i - from, length |-> n, str0 |-> substr(s, i, n)]

\* the search loop of regex_search: the match at the first offset from i on
\* at which the pattern matches
RECURSIVE SearchFrom(_, _, _, _)
SearchFrom(s, from, pattern, i) ==
    IF i > Len(s) THEN NoSmatch
    ELSE IF MatchAt(pattern, s, i) # NoMatch
         THEN Smatch(s, from, i, MatchAt(pattern, s, i))
         ELSE SearchFrom(s, from, pattern, i + 1)

\* std::regex_search(it_, end_, *match, pattern): the leftmost match in
\* s[from, end)
regex_search(s, from, pattern) == SearchFrom(s, from, pattern, from)

(***************************************************************************)
(* State: the scan cursor.  A cursor value st is [it_, linenum_]; the      *)
(* iterator it_ is kept as its offset from begin_ (what Position()         *)
(* returns).  The reading methods return [st, result, match]: the cursor   *)
(* after the call, the returned string and the std::smatch they filled.    *)
(***************************************************************************)
\* State::State: it_ = source.cbegin(), linenum_ = 1
StateInit == [it_ |-> 0, linenum_ |-> 1]

\* State::Position
Position(st) == st.it_

\* State::End
End(s, st) == st.it_ = Len(s)

\* a faulty variant of At: rfind(str) without the position, which finds the
\* last occurrence of str in the source
At_last(s, st, str) == rfind(s, str, Len(s)) = Position(st)

\* State::At(str)
At(s, st, str) == rfind(s, str, Position(st)) = Position(st)

\* a faulty variant of Advance: linenum_ = 1 + count instead of += count
Advance_reset(st, result, m) ==
    [st     |-> [it_ |-> st.it_ + Len(result), linenum_ |-> 1 + count(result)],
     result |-> result,
     match  |-> m]

\* the cursor st moved by the string `result` it has read
Advance(st, result, m) ==
    [st     |-> [it_ |-> st.it_ + Len(result), linenum_ |-> st.linenum_ + count(result)],
     result |-> result,
     match  |-> m]

\* a faulty variant of ReadUntil: without a match it reads nothing, as Read
\* does
ReadUntilMatch_stay(s, st, m) ==
    IF m.matched
    THEN Advance(st, substr(s, Position(st), m.position), m)
    ELSE [st |-> st, result |-> <<>>, match |-> m]

\* a faulty variant of ReadUntil: the match is read together with the text
\* in front of it
ReadUntilMatch_consume(s, st, m) ==
    IF m.matched
    THEN Advance(st, substr(s, Position(st), m.position + m.length), m)
    ELSE Advance(st, substr(s, Position(st), Len(s) - Position(st)), m)

\* State::ReadUntil, given the outcome m of its regex_search
ReadUntilMatch(s, st, m) ==
    IF m.matched
    THEN Advance(st, substr(s, Position(st), m.position), m)
    ELSE Advance(st, substr(s, Position(st), Len(s) - Position(st)), m)

\* State::ReadUntil
ReadUntil(s, st, pattern) == ReadUntilMatch(s, st, regex_search(s, st.it_, pattern))

\* a faulty variant of Read: the newlines of the text read are not counted
ReadMatch_noline(s, st, m) ==
    IF m.matched /\ m.position = 0
    THEN [st     |-> [it_ |-> st.it_ + m.length, linenum_ |-> st.linenum_],
          result |-> substr(s, Position(st), m.length),
          match  |-> m]
    ELSE [st |-> st, result |-> <<>>, match |-> m]

\* a faulty variant of Read: no test of match->position(0) == 0
ReadMatch_unanchored(s, st, m) ==
    IF m.matched
    THEN Advance(st, substr(s, Position(st), m.length), m)
    ELSE [st |-> st, result |-> <<>>, match |-> m]

\* State::Read, given the outcome m of its regex_search
ReadMatch(s, st, m) ==
    IF m.matched /\ m.position = 0
    THEN Advance(st, substr(s, Position(st), m.length), m)
    ELSE [st |-> st, result |-> <<>>, match |-> m]

\* State::Read
Read(s, st, pattern) == ReadMatch(s, st, regex_search(s, st.it_, pattern))

\* value.find('-') != std::string::npos
HasDash(value) == \E k \in 1..Len(value) : value[k] = "-"

\* a faulty variant of EatEnd: the '-' of the delimiter is not looked for
EatEndRead_nodash(s, r, strip_tags) ==
    IF strip_tags
    THEN Read(s, r.st, "re_whitespace")
    ELSE r

\* a faulty variant of EatEnd: strip_tags is not looked at
EatEndRead_noflag(s, r, strip_tags) ==
    IF HasDash(r.result)
    THEN Read(s, r.st, "re_whitespace")
    ELSE r

\* State::EatEnd after its first Read, which returned r
EatEndRead(s, r, strip_tags) ==
    IF strip_tags \/ HasDash(r.result)
    THEN Read(s, r.st, "re_whitespace")
    ELSE r

\* State::EatEnd
EatEnd(s, st, pattern, strip_tags) == EatEndRead(s, Read(s, st, pattern), strip_tags)

(***************************************************************************)
(* Lexer and tokens.                                                       *)
(***************************************************************************)
TOKEN_STATEMENT  == "statement"
TOKEN_TAG        == "tag"
TOKEN_EXPRESSION == "expression"
TOKEN_LITERAL    == "literal"
TOKEN_EOF        == "eof"

Token(linenum, type, value) == [linenum |-> linenum, type |-> type, value |-> value]

\* Lexer::Lexer(): the delimiter strings and strip_tags_ of the default
\* lexer (its six regex members are the operators above)
DefaultLexer ==
    [statement_start_ |-> <<"{", "{">>,
     statement_end_   |-> <<"}", "}">>,
     tag_start_       |-> <<"{", "%">>,
     tag_end_         |-> <<"%", "}">>,
     strip_tags_      |-> FALSE]

\* the tag name that starts a raw block: name == "raw"
RawName == <<"r", "a", "w">>

\* match.str(0).back() == '-' in the literal branch.  When the search found
\* no opening delimiter str(0) is empty and back() reads the byte before
\* the string's buffer (undefined behaviour): `garbage` says whether that
\* byte happens to be '-'.
BackIsDash(m, garbage) ==
    IF m.str0 # <<>> THEN m.str0[Len(m.str0)] = "-" ELSE garbage

(***************************************************************************)
(* The sources the lexer is run on: the concatenations of at most MaxAtoms *)
(* atoms, and of at most MaxSegs segments.                                 *)
(***************************************************************************)
Atoms ==
    { <<"{", "{">>, <<"}", "}">>, <<"{", "%">>, <<"%", "}">>,
      <<"-">>, <<" ">>, <<"\n">>, <<"\f">>, <<"x">> }

Segments ==
    { <<"{", "{", " ", "x", " ", "}", "}">>,
      <<"{", "%", " ", "r", "a", "w", " ", "%", "}">>,
      <<"{", "%", "r", "a", "w">>,
      <<"{", "%", "-", " ", "e", "n", "d", "r", "a", "w", " ", "-", "%", "}">>,
      <<"{", "%", "-", " ", "x", " ", "y", " ", "-", "%", "}">>,
      <<"{", "%", " ", "x", "\n", "y", " ", "%", "}">>,
      <<"{", "%", " ", "x", " ", "%", "}">>,
      <<"\n", " ", "x", " ", "\n">>,
      <<"x", " ">>,
      <<"{", "{">> }

Extend(W, pieces) == W \cup {w \o a : w \in W, a \in pieces}

RECURSIVE Words(_, _)
Words(pieces, n) ==
    IF n = 0 THEN {<<>>} ELSE Extend(Words(pieces, n - 1), pieces)

Sources == Words(Atoms, MaxAtoms) \cup Words(Segments, MaxSegs)

(***************************************************************************)
(* Lexer::Tokenize.  One action for the call, one per pass through the     *)
(* body of the while loop (the statement, the tag or the literal branch),  *)
(* and one for the code after the loop.                                    *)
(***************************************************************************)
VARIABLES
    lexer,      \* the Lexer the call is made on
    source,     \* State::source_
    state,      \* State::it_ and State::linenum_
    tokens,     \* the stream_t being built
    match,      \* the std::smatch shared by all the reads of the call
    pc,         \* "idle": before the call; "loop": at the loop test;
                \* "done": Tokenize has returned
    iters,      \* history: for each pass of the loop, where its reads went
    returned,   \* history: <<source, stream>> of the calls of Tokenize that
                \* were made on the lexer before the current one
    last        \* history: the last member function called on the cursor
                \* directly, with its arguments and what it returned

vars == <<lexer, source, state, tokens, match, pc, iters, returned, last>>

\* no member function has been called on the cursor directly
NoCall ==
    [op |-> "none", pattern |-> "", str |-> <<>>, strip_tags |-> FALSE,
     before |-> StateInit, result |-> <<>>, at |-> FALSE]

\* Lexer::Lexer(): a default lexer on which Tokenize has not been called
Init ==
    /\ lexer = DefaultLexer
    /\ source = <<>>
    /\ state = StateInit
    /\ tokens = <<>>
    /\ match = NoSmatch
    /\ pc = "idle"
    /\ iters = <<>>
    /\ returned = {}
    /\ last = NoCall

\* the call Tokenize(src), up to the loop: State state{source}, an empty
\* stream and an empty smatch
Call ==
    /\ pc = "idle"
    /\ \E src \in Sources : source' = src
    /\ state' = StateInit
    /\ tokens' = <<>>
    /\ match' = NoSmatch
    /\ pc' = "loop"
    /\ UNCHANGED <<lexer, iters, returned, last>>

\* The history record of one pass of the loop.  tok0: the number of tokens
\* before the pass.  Offsets: p0 at the loop test; p1 after the start
\* delimiter was read; p2 after the first ReadUntil (the statement body,
\* the tag name, the literal); p3 after the tag's second ReadUntil (its
\* expression); p4 after the first Read of EatEnd (the end delimiter); p5
\* after EatEnd; p6 after the raw body.  found: whether the ReadUntil for
\* the end delimiter (in the literal branch: for the next opening
\* delimiter) found a match.
Iter(branch, tok0, p0, p1, p2, p3, p4, p5, p6, found) ==
    [branch |-> branch, tok0 |-> tok0, p0 |-> p0, p1 |-> p1, p2 |-> p2,
     p3 |-> p3, p4 |-> p4, p5 |-> p5, p6 |-> p6, found |-> found]

\* The bindings r \in {e} below name the value a call returns: r1 the Read
\* of the start delimiter, r2 and r3 the ReadUntil calls, e1 the first Read
\* of EatEnd and r4 the rest of EatEnd (together the call of EatEnd), r5
\* the ReadUntil of the raw body.

\* the statement branch from its push_back on
StatementEmit(r1, r2, e1, r4) ==
    /\ tokens' = Append(tokens, Token(r1.st.linenum_, TOKEN_STATEMENT, r2.result))
    /\ state' = r4.st
    /\ match' = r4.match
    /\ iters' = Append(iters,
           Iter("statement", Len(tokens), state.it_, r1.st.it_, r2.st.it_,
                r2.st.it_, e1.st.it_, r4.st.it_, r4.st.it_, r2.match.matched))

StatementBranch ==
    /\ pc = "loop"
    /\ ~End(source, state)
    /\ At(source, state, lexer.statement_start_)
    /\ \E r1 \in {Read(source, state, "re_statement_start_")} :
       \E r2 \in {ReadUntil(source, r1.st, "re_statement_end_")} :
       \E e1 \in {Read(source, r2.st, "re_statement_end_")} :
       \E r4 \in {EatEndRead(source, e1, lexer.strip_tags_)} :
           StatementEmit(r1, r2, e1, r4)
    /\ UNCHANGED <<lexer, source, pc, returned, last>>

\* a faulty variant of TagTokens: no test of value.empty()
TagTokens_always(r1, r2, value) ==
    <<Token(r1.st.linenum_, TOKEN_TAG, r2.result),
      Token(r2.st.linenum_, TOKEN_EXPRESSION, value)>>

\* the Tag token and, when the stripped value is not empty, the Expression
\* token
TagTokens(r1, r2, value) ==
    IF value # <<>>
    THEN <<Token(r1.st.linenum_, TOKEN_TAG, r2.result),
           Token(r2.st.linenum_, TOKEN_EXPRESSION, value)>>
    ELSE <<Token(r1.st.linenum_, TOKEN_TAG, r2.result)>>

\* the tag branch from its first push_back on, for a tag that is not raw
TagEmit(r1, r2, r3, e1, r4) ==
    /\ tokens' = tokens \o TagTokens(r1, r2, strip(r3.result))
    /\ state' = r4.st
    /\ match' = r4.match
    /\ iters' = Append(iters,
           Iter("tag", Len(tokens), state.it_, r1.st.it_, r2.st.it_,
                r3.st.it_, e1.st.it_, r4.st.it_, r4.st.it_, r3.match.matched))

\* a faulty variant of RawEnd: the raw body ends at any opening delimiter
RawEnd_literal == "re_literal_end_"

\* the pattern the raw body is read up to
RawEnd == "re_endraw"

\* a faulty variant of RawEmit: after the raw body the end-raw tag is read
\* as well
RawEmit_swallow(r1, r2, r3, e1, r4, r5) ==
    /\ tokens' = tokens \o TagTokens(r1, r2, strip(r3.result))
                        \o <<Token(r4.st.linenum_, TOKEN_LITERAL, r5.result)>>
    /\ state' = Read(source, r5.st, RawEnd).st
    /\ match' = Read(source, r5.st, RawEnd).match
    /\ iters' = Append(iters,
           Iter("tag", Len(tokens), state.it_, r1.st.it_, r2.st.it_,
                r3.st.it_, e1.st.it_, r4.st.it_, Read(source, r5.st, RawEnd).st.it_,
                r3.match.matched))

\* the tag branch from its first push_back on, for name == "raw"
RawEmit(r1, r2, r3, e1, r4, r5) ==
    /\ tokens' = tokens \o TagTokens(r1, r2, strip(r3.result))
                        \o <<Token(r4.st.linenum_, TOKEN_LITERAL, r5.result)>>
    /\ state' = r5.st
    /\ match' = r5.match
    /\ iters' = Append(iters,
           Iter("tag", Len(tokens), state.it_, r1.st.it_, r2.st.it_,
                r3.st.it_, e1.st.it_, r4.st.it_, r5.st.it_, r3.match.matched))

TagBranch ==
    /\ pc = "loop"
    /\ ~End(source, state)
    /\ ~At(source, state, lexer.statement_start_)
    /\ At(source, state, lexer.tag_start_)
    /\ \E r1 \in {Read(source, state, "re_tag_start_")} :
       \E r2 \in {ReadUntil(source, r1.st, "re_name_end_")} :
       \E r3 \in {ReadUntil(source, r2.st, "re_tag_end_")} :
       \E e1 \in {Read(source, r3.st, "re_tag_end_")} :
       \E r4 \in {EatEndRead(source, e1, lexer.strip_tags_)} :
           IF r2.result = RawName
           THEN \E r5 \in {ReadUntil(source, r4.st, RawEnd)} :
                    RawEmit(r1, r2, r3, e1, r4, r5)
           ELSE TagEmit(r1, r2, r3, e1, r4)
    /\ UNCHANGED <<lexer, source, pc, returned, last>>

\* the literal branch after its ReadUntil r
LiteralEmit(r, garbage) ==
    /\ tokens' = Append(tokens,
           Token(state.linenum_, TOKEN_LITERAL,
                 IF BackIsDash(r.match, garbage) THEN rstrip(r.result) ELSE r.result))
    /\ state' = r.st
    /\ match' = r.match
    /\ iters' = Append(iters,
           Iter("literal", Len(tokens), state.it_, state.it_, r.st.it_,
                r.st.it_, r.st.it_, r.st.it_, r.st.it_, r.match.matched))

LiteralBranch ==
    /\ pc = "loop"
    /\ ~End(source, state)
    /\ ~At(source, state, lexer.statement_start_)
    /\ ~At(source, state, lexer.tag_start_)
    /\ \E garbage \in BOOLEAN :
       \E r \in {ReadUntil(source, state, "re_literal_end_")} :
           LiteralEmit(r, garbage)
    /\ UNCHANGED <<lexer, source, pc, returned, last>>

\* a faulty variant of Return: the token takes the local `linenum`, the
\* line of the last token pushed, instead of state.linenum()
Return_stale ==
    /\ pc = "loop"
    /\ End(source, state)
    /\ tokens' = Append(tokens,
           Token(IF tokens = <<>> THEN 1 ELSE tokens[Len(tokens)].linenum, TOKEN_EOF, <<>>))
    /\ pc' = "done"
    /\ UNCHANGED <<lexer, source, state, match, iters, returned, last>>

\* after the loop: tokens.push_back(Token{state.linenum(), TOKEN_EOF, ""})
Return ==
    /\ pc = "loop"
    /\ End(source, state)
    /\ tokens' = Append(tokens, Token(state.linenum_, TOKEN_EOF, <<>>))
    /\ pc' = "done"
    /\ UNCHANGED <<lexer, source, state, match, iters, returned, last>>

Next == Call \/ StatementBranch \/ TagBranch \/ LiteralBranch \/ Return

Spec == Init /\ [][Next]_vars

\* Tokenize is straight-line sequential code: a call that can take a step
\* takes it
FairSpec == Spec /\ WF_vars(Next)

(***************************************************************************)
(* Lexers made by the four-string constructor.  It stores the delimiter    *)
(* strings it is given and compiles the same six regular expressions as    *)
(* the default constructor.                                                *)
(***************************************************************************)
\* Lexer::Lexer(statement_start, statement_end, tag_start, tag_end)
Lexer4(statement_start, statement_end, tag_start, tag_end) ==
    [statement_start_ |-> statement_start,
     statement_end_   |-> statement_end,
     tag_start_       |-> tag_start,
     tag_end_         |-> tag_end,
     strip_tags_      |-> FALSE]

\* the lexers with delimiters [[ ]] [% %], and with [[ ]] {% %}
CustomLexers ==
    { Lexer4(<<"[", "[">>, <<"]", "]">>, <<"[", "%">>, <<"%", "]">>),
      Lexer4(<<"[", "[">>, <<"]", "]">>, <<"{", "%">>, <<"%", "}">>) }

CustomAtoms ==
    { <<"[", "[">>, <<"]", "]">>, <<"[", "%">>, <<"%", "]">>,
      <<"{", "{">>, <<"}", "}">>, <<"{", "%">>, <<" ">>, <<"x">> }

CustomSources == Words(CustomAtoms, MaxAtoms)

\* a lexer made by the four-string constructor, Tokenize not yet called
InitCustom ==
    /\ lexer \in CustomLexers
    /\ source = <<>>
    /\ state = StateInit
    /\ tokens = <<>>
    /\ match = NoSmatch
    /\ pc = "idle"
    /\ iters = <<>>
    /\ returned = {}
    /\ last = NoCall

\* the call Tokenize(src) on such a lexer, up to the loop
CallCustom ==
    /\ pc = "idle"
    /\ \E src \in CustomSources : source' = src
    /\ state' = StateInit
    /\ tokens' = <<>>
    /\ match' = NoSmatch
    /\ pc' = "loop"
    /\ UNCHANGED <<lexer, iters, returned, last>>

\* a pass of the loop while tokens.push_back still finds memory
Pass ==
    /\ Len(tokens) < MaxTokens
    /\ (StatementBranch \/ TagBranch \/ LiteralBranch)

\* tokens.push_back throws std::bad_alloc: Tokenize ends by an exception
BadAlloc ==
    /\ pc = "loop"
    /\ ~End(source, state)
    /\ Len(tokens) >= MaxTokens
    /\ pc' = "bad_alloc"
    /\ UNCHANGED <<lexer, source, state, tokens, match, iters, returned, last>>

CustomNext == CallCustom \/ Pass \/ Return \/ BadAlloc

CustomSpec == InitCustom /\ [][CustomNext]_vars

\* as FairSpec: the call is sequential code that keeps running
FairCustomSpec == CustomSpec /\ WF_vars(CustomNext)

(***************************************************************************)
(* Two calls of Tokenize on one lexer.  Each call has its own State,       *)
(* stream and smatch (the locals of Tokenize); the lexer is all that the   *)
(* calls share.                                                            *)
(***************************************************************************)
RepeatSources == Words(Atoms, MaxAtoms - 2) \cup Words(Segments, MaxSegs - 2)

\* the first call Tokenize(src)
CallRepeat ==
    /\ pc = "idle"
    /\ \E src \in RepeatSources : source' = src
    /\ state' = StateInit
    /\ tokens' = <<>>
    /\ match' = NoSmatch
    /\ pc' = "loop"
    /\ UNCHANGED <<lexer, iters, returned, last>>

\* the first call has returned its stream; the second call Tokenize(src)
\* on the same lexer, up to the loop
Again ==
    /\ pc = "done"
    /\ returned = {}
    /\ returned' = {<<source, tokens>>}
    /\ \E src \in RepeatSources : source' = src
    /\ state' = StateInit
    /\ tokens' = <<>>
    /\ match' = NoSmatch
    /\ iters' = <<>>
    /\ pc' = "loop"
    /\ UNCHANGED <<lexer, last>>

RepeatNext ==
    CallRepeat \/ StatementBranch \/ TagBranch \/ LiteralBranch \/ Return \/ Again

RepeatSpec == Init /\ [][RepeatNext]_vars

(***************************************************************************)
(* The cursor on its own: a State constructed on a source, on which the    *)
(* member functions are called in any order and with any pattern.          *)
(***************************************************************************)
CursorSources == Words(Atoms, MaxAtoms - 2)

\* the std::regex objects of lex.h and of the Lexer
Patterns ==
    { "re_statement_start_", "re_statement_end_", "re_tag_start_", "re_tag_end_",
      "re_literal_end_", "re_name_end_", "re_endraw", "re_whitespace" }

\* the strings At is called with
Delimiters ==
    { DefaultLexer.statement_start_, DefaultLexer.statement_end_,
      DefaultLexer.tag_start_, DefaultLexer.tag_end_ }

\* State state{source}
InitCursor ==
    /\ lexer = DefaultLexer
    /\ source \in CursorSources
    /\ state = StateInit
    /\ tokens = <<>>
    /\ match = NoSmatch
    /\ pc = "cursor"
    /\ iters = <<>>
    /\ returned = {}
    /\ last = NoCall

\* the record of a call: its name and arguments, the cursor before it and
\* what it returned (for EatEnd, which returns nothing, the `value` its
\* first Read returned)
CallOf(op, pattern, str, strip_tags, result, at) ==
    [op |-> op, pattern |-> pattern, str |-> str, strip_tags |-> strip_tags,
     before |-> state, result |-> result, at |-> at]

\* state.ReadUntil(pattern, &match)
CallReadUntil ==
    /\ pc = "cursor"
    /\ \E pattern \in Patterns :
       \E r \in {ReadUntil(source, state, pattern)} :
           /\ state' = r.st
           /\ match' = r.match
           /\ last' = CallOf("ReadUntil", pattern, <<>>, FALSE, r.result, FALSE)
    /\ UNCHANGED <<lexer, source, tokens, pc, iters, returned>>

\* state.Read(pattern, &match)
CallRead ==
    /\ pc = "cursor"
    /\ \E pattern \in Patterns :
       \E r \in {Read(source, state, pattern)} :
           /\ state' = r.st
           /\ match' = r.match
           /\ last' = CallOf("Read", pattern, <<>>, FALSE, r.result, FALSE)
    /\ UNCHANGED <<lexer, source, tokens, pc, iters, returned>>

\* state.EatEnd(pattern, &match, strip_tags)
CallEatEnd ==
    /\ pc = "cursor"
    /\ \E pattern \in Patterns, strip_tags \in BOOLEAN :
       \E e1 \in {Read(source, state, pattern)} :
       \E r \in {EatEndRead(source, e1, strip_tags)} :
           /\ state' = r.st
           /\ match' = r.match
           /\ last' = CallOf("EatEnd", pattern, <<>>, strip_tags, e1.result, FALSE)
    /\ UNCHANGED <<lexer, source, tokens, pc, iters, returned>>

\* state.At(str)
CallAt ==
    /\ pc = "cursor"
    /\ \E str \in Delimiters :
           last' = CallOf("At", "", str, FALSE, <<>>, At(source, state, str))
    /\ UNCHANGED <<lexer, source, state, tokens, match, pc, iters, returned>>

CursorNext == CallReadUntil \/ CallRead \/ CallEatEnd \/ CallAt

CursorSpec == InitCursor /\ [][CursorNext]_vars

(***************************************************************************)
(* Vocabulary of the properties.                                           *)
(***************************************************************************)
Done == pc = "done"

\* the source text at offsets a .. b-1
Slice(a, b) == SubSeq(source, a + 1, b)

\* the 1-based line on which offset p of the source lies
LineOf(p) == 1 + Cardinality({k \in 1..p : source[k] = "\n"})

\* the last token of the stream
LastToken == tokens[Len(tokens)]

\* the passes of the loop made so far, and those of a given branch
Passes == 1..Len(iters)
PassesOf(branch) == {i \in Passes : iters[i].branch = branch}

\* the index of the last token of pass i (EndOfInput belongs to no pass)
LastTok(i) ==
    IF i < Len(iters) THEN iters[i + 1].tok0
    ELSE IF Done THEN Len(tokens) - 1 ELSE Len(tokens)

\* the k-th token of pass i
Tok(i, k) == tokens[iters[i].tok0 + k]

\* the passes through the tag branch whose tag name is raw
RawPasses == {i \in PassesOf("tag") : Tok(i, 1).value = RawName}

\* the delimiter str occurs in the source at some offset >= from
HasAt(str, from) == \E j \in from..Len(source) : OccursAt(source, j, str)

\* the first offset >= from at which str occurs in the source, or the
\* length of the source when there is none
FirstAt(str, from) ==
    IF HasAt(str, from)
    THEN CHOOSE j \in from..Len(source) :
             /\ OccursAt(source, j, str)
             /\ \A k \in from..(j - 1) : ~OccursAt(source, k, str)
    ELSE Len(source)

\* the pattern matches the source at some offset >= from
Matches(pattern, from) ==
    \E j \in from..Len(source) : MatchAt(pattern, source, j) # NoMatch

\* the first offset >= from at which the pattern matches the source, or the
\* length of the source when there is none
FirstMatch(pattern, from) ==
    IF Matches(pattern, from)
    THEN CHOOSE j \in from..Len(source) :
             /\ MatchAt(pattern, source, j) # NoMatch
             /\ \A k \in from..(j - 1) : MatchAt(pattern, source, k) = NoMatch
    ELSE Len(source)

\* s without a leading / a trailing '-'
DropLeadingDash(s) == IF s # <<>> /\ Head(s) = "-" THEN Tail(s) ELSE s
DropTrailingDash(s) ==
    IF s # <<>> /\ s[Len(s)] = "-" THEN SubSeq(s, 1, Len(s) - 1) ELSE s

\* s without its leading / its trailing \s characters
RECURSIVE TrimLeft(_)
TrimLeft(s) == IF s # <<>> /\ Head(s) \in ReSpace THEN TrimLeft(Tail(s)) ELSE s
RECURSIVE TrimRight(_)
TrimRight(s) ==
    IF s # <<>> /\ s[Len(s)] \in ReSpace
    THEN TrimRight(SubSeq(s, 1, Len(s) - 1))
    ELSE s

\* the sources of the scenarios, with x for the words
SrcStatement == <<"x", " ">> \o <<"{", "{", " ", "x", " ", "}", "}">>
SrcRaw ==
    <<"{", "%", " ", "r", "a", "w", " ", "%", "}">>
    \o <<"{", "{", " ", "x", " ", "}", "}">>
    \o <<"{", "%", "-", " ", "e", "n", "d", "r", "a", "w", " ", "-", "%", "}">>
SrcTrim ==
    <<"{", "%", "-", " ", "x", " ", "y", " ", "-", "%", "}">>
    \o <<"\n", " ", "x", " ", "\n">>
    \o <<"{", "%", "-", " ", "x", " ", "y", " ", "-", "%", "}">>
SrcBareTag == <<"{", "%", " ", "x", " ", "%", "}">>

(***************************************************************************)
(* C1.  Tokenize terminates on every source: every pass of the scan loop   *)
(* (statement, tag or literal branch) strictly increases the cursor        *)
(* position, and the call eventually returns, with the cursor at the end   *)
(* of the input and EndOfInput as the last token appended.                 *)
(***************************************************************************)
C1_Terminates ==
    /\ [][pc = "loop" /\ pc' = "loop" =>
              state'.it_ > state.it_ /\ state'.it_ <= Len(source)]_vars
    /\ <>(Done /\ End(source, state) /\ LastToken.type = TOKEN_EOF)

\* a call that has returned after passes through all three branches
C1_Witness ==
    /\ Done
    /\ PassesOf("statement") # {}
    /\ PassesOf("tag") # {}
    /\ PassesOf("literal") # {}

(***************************************************************************)
(* C2.  The stream that Tokenize returns holds exactly one EndOfInput      *)
(* token, as its last element, with empty text and with the line the       *)
(* cursor's line counter has at the end of the scan (one more than the     *)
(* number of newlines of the source); while the scan is running no         *)
(* EndOfInput token has been emitted; the empty source gives exactly the   *)
(* stream <<EndOfInput, line 1>>.                                          *)
(***************************************************************************)
C2_OneEndOfInput ==
    /\ ~Done => \A k \in 1..Len(tokens) : tokens[k].type # TOKEN_EOF
    /\ Done =>
          /\ {k \in 1..Len(tokens) : tokens[k].type = TOKEN_EOF} = {Len(tokens)}
          /\ LastToken.value = <<>>
          /\ LastToken.linenum = state.linenum_
          /\ LastToken.linenum = LineOf(Len(source))
          /\ source = <<>> => tokens = <<Token(1, TOKEN_EOF, <<>>)>>

\* a returned stream of several tokens whose EndOfInput is not on line 1
C2_Witness ==
    /\ Done
    /\ Len(tokens) >= 3
    /\ LastToken.linenum >= 2

(***************************************************************************)
(* C3 (as stated).  A Statement token's text is the raw, untrimmed source  *)
(* slice between the statement start delimiter and the statement end       *)
(* delimiter, whitespace next to the delimiters included: "x {{ x }}"      *)
(* gives Literal("x "), Statement(" x "), EndOfInput.                      *)
(***************************************************************************)
C3_RawStatementText ==
    /\ \A i \in PassesOf("statement") :
           HasAt(lexer.statement_end_, iters[i].p0 + 2) =>
               /\ Tok(i, 1).type = TOKEN_STATEMENT
               /\ Tok(i, 1).value =
                      Slice(iters[i].p0 + 2, FirstAt(lexer.statement_end_, iters[i].p0 + 2))
    /\ Done /\ source = SrcStatement =>
           tokens = <<Token(1, TOKEN_LITERAL, <<"x", " ">>),
                      Token(1, TOKEN_STATEMENT, <<" ", "x", " ">>),
                      Token(1, TOKEN_EOF, <<>>)>>

\* the text of a statement whose delimiters enclose the slice s: s without
\* a '-' right after the start delimiter and the whitespace that follows,
\* and without a '-' right before the end delimiter and the whitespace that
\* precedes it
StatementText(s) == TrimRight(DropTrailingDash(TrimLeft(DropLeadingDash(s))))

(***************************************************************************)
(* C3 (amended).  A Statement token's text is the source slice between the *)
(* statement start delimiter and the statement end delimiter without the   *)
(* trim markers ('-' right after the start delimiter, '-' right before the *)
(* end delimiter) and without the whitespace next to the delimiters:       *)
(* "x {{ x }}" gives Literal("x "), Statement("x"), EndOfInput.            *)
(***************************************************************************)
C3_StatementText ==
    /\ \A i \in PassesOf("statement") :
           HasAt(lexer.statement_end_, iters[i].p0 + 2) =>
               /\ iters[i].found
               /\ LastTok(i) = iters[i].tok0 + 1
               /\ Tok(i, 1).type = TOKEN_STATEMENT
               /\ Tok(i, 1).value =
                      StatementText(Slice(iters[i].p0 + 2,
                                          FirstAt(lexer.statement_end_, iters[i].p0 + 2)))
    /\ Done /\ source = SrcStatement =>
           tokens = <<Token(1, TOKEN_LITERAL, <<"x", " ">>),
                      Token(1, TOKEN_STATEMENT, <<"x">>),
                      Token(1, TOKEN_EOF, <<>>)>>

\* a returned stream with a statement whose text is not empty and is
\* shorter than the slice between its delimiters
C3_Witness ==
    /\ Done
    /\ \E i \in PassesOf("statement") :
           /\ iters[i].found
           /\ Tok(i, 1).value # <<>>
           /\ Len(Tok(i, 1).value) < (iters[i].p4 - 2) - (iters[i].p0 + 2)

(***************************************************************************)
(* C4 (as stated).  When a tag named raw is followed by an endraw tag, the *)
(* endraw tag is consumed together with the raw body and produces no Tag   *)
(* or Expression token of its own: the pass of the raw tag leaves the      *)
(* cursor after the endraw tag, and "{% raw %}{{ x }}{%- endraw -%}" gives *)
(* Tag("raw"), Literal("{{ x }}"), EndOfInput.                             *)
(***************************************************************************)
C4_EndrawSwallowed ==
    /\ \A i \in RawPasses :
           Matches("re_endraw", iters[i].p5) =>
               iters[i].p6 = FirstMatch("re_endraw", iters[i].p5)
                             + re_endraw(source, FirstMatch("re_endraw", iters[i].p5))
    /\ Done /\ source = SrcRaw =>
           tokens = <<Token(1, TOKEN_TAG, RawName),
                      Token(1, TOKEN_LITERAL, <<"{", "{", " ", "x", " ", "}", "}">>),
                      Token(1, TOKEN_EOF, <<>>)>>

(***************************************************************************)
(* C4 (amended).  When a tag named raw is followed by an endraw tag, the   *)
(* read of the raw body stops in front of the endraw tag and does not      *)
(* consume it: the next pass of the loop lexes it as an ordinary tag, which*)
(* produces the token Tag("endraw") and no Expression token, and ends      *)
(* after the endraw tag.  "{% raw %}{{ x }}{%- endraw -%}" gives           *)
(* Tag("raw"), Literal("{{ x }}"), Tag("endraw"), EndOfInput.              *)
(***************************************************************************)
C4_EndrawIsATag ==
    /\ \A i \in RawPasses :
           Matches("re_endraw", iters[i].p5) =>
               /\ iters[i].p6 = FirstMatch("re_endraw", iters[i].p5)
               /\ pc = "loop" => i < Len(iters) \/ state.it_ = iters[i].p6
               /\ Done => i < Len(iters)
               /\ i < Len(iters) =>
                      /\ iters[i + 1].branch = "tag"
                      /\ iters[i + 1].p0 = iters[i].p6
                      /\ LastTok(i + 1) = iters[i + 1].tok0 + 1
                      /\ Tok(i + 1, 1).type = TOKEN_TAG
                      /\ Tok(i + 1, 1).value = <<"e", "n", "d", "r", "a", "w">>
                      /\ iters[i + 1].p4 =
                             iters[i].p6 + re_endraw(source, iters[i].p6)
    /\ Done /\ source = SrcRaw =>
           tokens = <<Token(1, TOKEN_TAG, RawName),
                      Token(1, TOKEN_LITERAL, <<"{", "{", " ", "x", " ", "}", "}">>),
                      Token(1, TOKEN_TAG, <<"e", "n", "d", "r", "a", "w">>),
                      Token(1, TOKEN_EOF, <<>>)>>

\* a returned stream with a raw tag, a raw body that is not empty and the
\* endraw tag
C4_Witness ==
    /\ Done
    /\ \E i \in RawPasses :
           /\ Matches("re_endraw", iters[i].p5)
           /\ iters[i].p6 > iters[i].p5
           /\ i < Len(iters)

(***************************************************************************)
(* C5.  After a tag named raw, the source text from the end of the tag's   *)
(* terminator (where EatEnd leaves the cursor) up to the next end-raw tag, *)
(* or up to the end of the input when there is none, is emitted verbatim   *)
(* as one Literal token, the last token of the tag's pass; no pass of the  *)
(* loop starts inside the raw body, so that no Statement, Tag or           *)
(* Expression token comes from a {{ or {% in it.                           *)
(***************************************************************************)
C5_RawBodyVerbatim ==
    \A i \in RawPasses :
        /\ iters[i].p6 = FirstMatch("re_endraw", iters[i].p5)
        /\ LastTok(i) \in {iters[i].tok0 + 2, iters[i].tok0 + 3}
        /\ tokens[LastTok(i)].type = TOKEN_LITERAL
        /\ tokens[LastTok(i)].value = Slice(iters[i].p5, iters[i].p6)
        /\ \A k \in (iters[i].tok0 + 1)..(LastTok(i) - 1) :
               tokens[k].type \in {TOKEN_TAG, TOKEN_EXPRESSION}
        /\ \A j \in Passes : ~(iters[i].p5 <= iters[j].p0 /\ iters[j].p0 < iters[i].p6)
        /\ pc = "loop" /\ i = Len(iters) => state.it_ = iters[i].p6

\* a returned stream with a raw body that holds an opening delimiter and is
\* ended by an endraw tag
C5_Witness ==
    /\ Done
    /\ \E i \in RawPasses :
           /\ Matches("re_endraw", iters[i].p5)
           /\ Matches("re_literal_end_", iters[i].p5)
           /\ FirstMatch("re_literal_end_", iters[i].p5) < iters[i].p6

\* all characters of s are \s characters
AllSpace(s) == \A k \in 1..Len(s) : s[k] \in ReSpace

Unterminated(i) ==
    \/ /\ iters[i].branch = "statement"
       /\ ~HasAt(lexer.statement_end_, iters[i].p0 + 2)
    \/ /\ iters[i].branch = "tag"
       /\ ~HasAt(lexer.tag_end_, iters[i].p0 + 2)

(***************************************************************************)
(* C7.  An unterminated construct is no error.  When a statement start (a  *)
(* tag start) has no end delimiter before the end of the input, the        *)
(* Statement body (the tag's expression read) extends to the end of the    *)
(* source, the terminator step consumes nothing, the pass leaves the       *)
(* cursor at the end of the input and is the last one, and after the       *)
(* tokens of the construct (Statement; or Tag, Expression if not empty,    *)
(* and the Literal of the raw body if the tag is raw) only EndOfInput      *)
(* follows.  A pass whose end delimiter exists finds it.                   *)
(***************************************************************************)
C7_Unterminated ==
    \A i \in PassesOf("statement") \cup PassesOf("tag") :
        /\ iters[i].found <=> ~Unterminated(i)
        /\ Unterminated(i) =>
               /\ iters[i].p3 = Len(source)
               /\ iters[i].p4 = iters[i].p3
               /\ iters[i].p5 = Len(source)
               /\ iters[i].p6 = Len(source)
               /\ i = Len(iters)
               /\ pc = "loop" => End(source, state)
               /\ iters[i].branch = "statement" =>
                      /\ LastTok(i) = iters[i].tok0 + 1
                      /\ Tok(i, 1) = Token(Tok(i, 1).linenum, TOKEN_STATEMENT,
                                           Slice(iters[i].p1, Len(source)))
               /\ iters[i].branch = "tag" =>
                      /\ Tok(i, 1).type = TOKEN_TAG
                      /\ Tok(i, 1).value = Slice(iters[i].p1, iters[i].p2)
                      /\ \A k \in (iters[i].tok0 + 2)..LastTok(i) :
                             \/ /\ k = iters[i].tok0 + 2
                                /\ tokens[k].type = TOKEN_EXPRESSION
                                /\ tokens[k].value = strip(Slice(iters[i].p2, Len(source)))
                             \/ /\ k = LastTok(i)
                                /\ i \in RawPasses
                                /\ tokens[k] = Token(tokens[k].linenum, TOKEN_LITERAL, <<>>)
               /\ Done =>
                      /\ Len(tokens) = LastTok(i) + 1
                      /\ LastToken.type = TOKEN_EOF

\* returned streams that end with an unterminated statement whose body is
\* not empty, or with an unterminated tag that has an expression
C7_Witness ==
    /\ Done
    /\ Len(iters) >= 2
    /\ Unterminated(Len(iters))
    /\ iters[Len(iters)].p3 > iters[Len(iters)].p1
    /\ LastTok(Len(iters)) \in {iters[Len(iters)].tok0 + 1, iters[Len(iters)].tok0 + 2}

(***************************************************************************)
(* C8.  In the tag branch an Expression token is emitted if and only if    *)
(* the text between the tag name and the tag end delimiter (the match of   *)
(* the tag end pattern, or the end of the input) is not empty after        *)
(* stripping leading and trailing space, tab, CR and LF.  When emitted it  *)
(* directly follows its Tag token and its text is the stripped text, never *)
(* empty; every Expression token of the stream is one of these; the tag    *)
(* "{% x %}" gives a Tag token and no Expression token.                    *)
(***************************************************************************)
C8_ExpressionIffNotEmpty ==
    /\ \A i \in PassesOf("tag") :
           /\ Tok(i, 1).type = TOKEN_TAG
           /\ iters[i].p3 = FirstMatch("re_tag_end_", iters[i].p2)
           /\ IF strip(Slice(iters[i].p2, iters[i].p3)) # <<>>
              THEN /\ LastTok(i) >= iters[i].tok0 + 2
                   /\ Tok(i, 2).type = TOKEN_EXPRESSION
                   /\ Tok(i, 2).value = strip(Slice(iters[i].p2, iters[i].p3))
              ELSE \A k \in (iters[i].tok0 + 1)..LastTok(i) :
                       tokens[k].type # TOKEN_EXPRESSION
    /\ \A k \in 1..Len(tokens) :
           tokens[k].type = TOKEN_EXPRESSION =>
               /\ tokens[k].value # <<>>
               /\ k > 1
               /\ tokens[k - 1].type = TOKEN_TAG
               /\ \E i \in PassesOf("tag") : k = iters[i].tok0 + 2
    /\ Done /\ source = SrcBareTag =>
           tokens = <<Token(1, TOKEN_TAG, <<"x">>), Token(1, TOKEN_EOF, <<>>)>>

\* a returned stream with a tag that has an expression with whitespace
\* around it, and a tag that has only whitespace after its name
C8_Witness ==
    /\ Done
    /\ \E i \in PassesOf("tag") :
           /\ LastTok(i) >= iters[i].tok0 + 2
           /\ Tok(i, 2).type = TOKEN_EXPRESSION
           /\ Len(Tok(i, 2).value) < iters[i].p3 - iters[i].p2
    /\ \E i \in PassesOf("tag") :
           /\ LastTok(i) = iters[i].tok0 + 1
           /\ iters[i].p3 > iters[i].p2

(***************************************************************************)
(* C9.  The line numbers of the tokens of a stream never decrease from one *)
(* token to the next, and the first token's line is at least 1.            *)
(***************************************************************************)
C9_LinesNonDecreasing ==
    /\ \A k \in 1..(Len(tokens) - 1) : tokens[k].linenum <= tokens[k + 1].linenum
    /\ tokens # <<>> => tokens[1].linenum >= 1

\* a returned stream in which the line grows twice
C9_Witness ==
    /\ Done
    /\ \E k \in 1..(Len(tokens) - 1) : tokens[k].linenum < tokens[k + 1].linenum
    /\ LastToken.linenum >= 3

\* the offset at which the text of token k of the stream begins in the
\* source, for a token of pass i
TextStart(i, k) ==
    IF iters[i].branch = "literal" THEN iters[i].p0
    ELSE IF k = iters[i].tok0 + 1 THEN iters[i].p1
    ELSE IF tokens[k].type = TOKEN_EXPRESSION
         THEN iters[i].p2 + (Len(Slice(iters[i].p2, iters[i].p3))
                             - Len(lstrip(Slice(iters[i].p2, iters[i].p3))))
    ELSE iters[i].p5

(***************************************************************************)
(* C10.  The line of every Statement, Tag, Expression and Literal token    *)
(* whose text is not empty is the 1-based line on which its text begins:   *)
(* 1 + the number of newlines of the source before the first character of  *)
(* the text.                                                               *)
(***************************************************************************)
C10_LineOfText ==
    \A i \in Passes :
        \A k \in (iters[i].tok0 + 1)..LastTok(i) :
            tokens[k].value # <<>> =>
                /\ SubSeq(source, TextStart(i, k) + 1, TextStart(i, k) + Len(tokens[k].value))
                       = tokens[k].value
                /\ tokens[k].linenum = LineOf(TextStart(i, k))

\* the first offset >= from at which one of the lexer's two opening
\* delimiters occurs, or the length of the source
FirstOpening(from) ==
    IF FirstAt(lexer.statement_start_, from) <= FirstAt(lexer.tag_start_, from)
    THEN FirstAt(lexer.statement_start_, from)
    ELSE FirstAt(lexer.tag_start_, from)

(***************************************************************************)
(* C11.  A lexer made with delimiter strings of its own uses them: a       *)
(* statement or tag pass consumes the configured start delimiter, so that  *)
(* the text of its first token begins after it; the statement body and the *)
(* tag's expression end no later than the first configured end delimiter;  *)
(* a literal run ends at the first configured opening delimiter.           *)
(***************************************************************************)
C11_ConfiguredDelimiters ==
    \A i \in Passes :
        /\ iters[i].branch = "statement" =>
               /\ iters[i].p1 >= iters[i].p0 + Len(lexer.statement_start_)
               /\ iters[i].p2 <= FirstAt(lexer.statement_end_,
                                         iters[i].p0 + Len(lexer.statement_start_))
        /\ iters[i].branch = "tag" =>
               /\ iters[i].p1 >= iters[i].p0 + Len(lexer.tag_start_)
               /\ iters[i].p3 <= FirstAt(lexer.tag_end_,
                                         iters[i].p0 + Len(lexer.tag_start_))
        /\ iters[i].branch = "literal" =>
               iters[i].p2 = FirstOpening(iters[i].p0)

(***************************************************************************)
(* C12.  Tokenize is total for every lexer made by the four-string         *)
(* constructor and every source: each pass of the loop moves the cursor    *)
(* forward, the call never ends by an exception, and it returns a stream   *)
(* that ends with EndOfInput.                                              *)
(***************************************************************************)
C12_TotalForEveryLexer ==
    /\ [][pc = "loop" /\ pc' = "loop" => state'.it_ > state.it_]_vars
    /\ [](pc # "bad_alloc")
    /\ <>(Done /\ LastToken.type = TOKEN_EOF)

\* pass i pushed a Literal token: the index of that token in the stream,
\* and the offsets of the source text it was read from
LiteralPasses == PassesOf("literal") \cup RawPasses
LiteralTok(i) == IF iters[i].branch = "literal" THEN iters[i].tok0 + 1 ELSE LastTok(i)
LiteralFrom(i) == IF iters[i].branch = "literal" THEN iters[i].p0 ELSE iters[i].p5
LiteralTo(i) == IF iters[i].branch = "literal" THEN iters[i].p2 ELSE iters[i].p6

(***************************************************************************)
(* C13.  No Literal token with empty text is emitted between two           *)
(* constructs that are adjacent in the source: a Literal that follows a    *)
(* construct (a statement, a tag, or the raw tag of its own pass) and is   *)
(* followed by another one (the endraw tag included) and has empty text    *)
(* was read from source text that is not empty.                            *)
(***************************************************************************)
C13_NoEmptyLiteralBetween ==
    \A i \in LiteralPasses :
        /\ i > 1 \/ i \in RawPasses
        /\ i < Len(iters)
        /\ iters[i + 1].branch \in {"statement", "tag"}
        /\ tokens[LiteralTok(i)].value = <<>>
        => LiteralTo(i) > LiteralFrom(i)

(***************************************************************************)
(* C14.  Tokenize is a function of the lexer's configuration and the       *)
(* source: a call returns the same stream as any earlier call that was     *)
(* made with the same source on a lexer of the same configuration,         *)
(* whatever was tokenized in between.                                      *)
(***************************************************************************)
C14_PureFunction ==
    Done => \A r \in returned : r[1] = source => r[2] = tokens

(***************************************************************************)
(* C15.  Whatever ReadUntil, Read and EatEnd calls are made on a cursor,   *)
(* its position never decreases and never exceeds the length of the        *)
(* source, and its line counter is 1 + the number of newlines of the       *)
(* source in front of the position.                                        *)
(***************************************************************************)
C15_CursorInvariant ==
    /\ [](state.it_ >= 0 /\ state.it_ <= Len(source))
    /\ [](state.linenum_ = LineOf(state.it_))
    /\ [][state'.it_ >= state.it_]_vars

\* EatEnd has moved a cursor that was not at the start over a newline
C15_Witness ==
    /\ last.op = "EatEnd"
    /\ last.before.it_ > 0
    /\ state.it_ > last.before.it_
    /\ state.linenum_ > last.before.linenum_

(***************************************************************************)
(* C16.  ReadUntil(pattern) returns the source text between the position   *)
(* and the first match of the pattern in the rest of the source and leaves *)
(* the cursor on the first character of that match, which it does not      *)
(* consume; when the pattern matches nowhere in the rest of the source it  *)
(* returns the whole rest and leaves the cursor at the end.                *)
(***************************************************************************)
C16_ReadUntil ==
    last.op = "ReadUntil" =>
        /\ last.result = Slice(last.before.it_, FirstMatch(last.pattern, last.before.it_))
        /\ state.it_ = FirstMatch(last.pattern, last.before.it_)
        /\ IF Matches(last.pattern, last.before.it_)
           THEN MatchAt(last.pattern, source, state.it_) # NoMatch
           ELSE /\ state.it_ = Len(source)
                /\ last.result = Slice(last.before.it_, Len(source))

\* ReadUntil has read some text up to a match that is not empty
C16_Witness ==
    /\ last.op = "ReadUntil"
    /\ Matches(last.pattern, last.before.it_)
    /\ last.result # <<>>
    /\ MatchAt(last.pattern, source, state.it_) > 0

(***************************************************************************)
(* C17.  Read(pattern) consumes only a match that begins at the position:  *)
(* it returns that match and moves the cursor over it; when the pattern    *)
(* does not match at the position, even if it matches further on, it       *)
(* returns the empty string and leaves position and line counter as they   *)
(* were.  At(str) leaves position and line counter as they were and is     *)
(* true iff the source text at the position begins with str.               *)
(***************************************************************************)
C17_ReadAndAt ==
    /\ last.op = "Read" =>
           IF MatchAt(last.pattern, source, last.before.it_) # NoMatch
           THEN /\ last.result =
                       Slice(last.before.it_,
                             last.before.it_ + MatchAt(last.pattern, source, last.before.it_))
                /\ state.it_ = last.before.it_ + Len(last.result)
           ELSE /\ last.result = <<>>
                /\ state = last.before
    /\ last.op = "At" =>
           /\ state = last.before
           /\ last.at <=> OccursAt(source, last.before.it_, last.str)

\* Read was called where its pattern does not match, but matches further on
C17_Witness ==
    /\ last.op = "Read"
    /\ MatchAt(last.pattern, source, last.before.it_) = NoMatch
    /\ Matches(last.pattern, last.before.it_)

\* the offset after the terminator that EatEnd was called on: after the
\* match of its pattern at the position, or the position when there is none
AfterTerminator ==
    IF MatchAt(last.pattern, source, last.before.it_) # NoMatch
    THEN last.before.it_ + MatchAt(last.pattern, source, last.before.it_)
    ELSE last.before.it_

TagToksOf(i) ==
    {k \in (iters[i].tok0 + 1)..LastTok(i) : tokens[k].type = TOKEN_TAG}

\* the source of the scenario of a tag without a name
SrcNoName == <<"{", "%", " ", " ", "%", "}">>

\* C19: every pass through the tag branch emits exactly one Tag token, the
\* first token of the pass; its text is the source from the end of the
\* start delimiter (with its '-' and whitespace) up to the first
\* whitespace character or end delimiter of a tag (with its '-'), so that
\* it holds no whitespace and no end delimiter; a tag without a name, as
\* in "{%  %}", yields a Tag token with the empty text.
C19_TagName ==
    /\ \A i \in PassesOf("tag") :
         /\ TagToksOf(i) = {iters[i].tok0 + 1}
         /\ iters[i].p1 = iters[i].p0 + MatchAt("re_tag_start_", source, iters[i].p0)
         /\ iters[i].p2 = FirstMatch("re_name_end_", iters[i].p1)
         /\ Tok(i, 1).value = Slice(iters[i].p1, iters[i].p2)
         /\ \A k \in 1..Len(Tok(i, 1).value) :
                /\ Tok(i, 1).value[k] \notin ReSpace
                /\ ~OccursAt(Tok(i, 1).value, k - 1, lexer.tag_end_)
    /\ Done /\ source = SrcNoName =>
         /\ Len(tokens) = 2
         /\ tokens[1].type = TOKEN_TAG
         /\ tokens[1].value = <<>>

\* the tag without a name has been read: the start delimiter took the
\* whitespace and the name ended at once at the end delimiter
C19_Witness ==
    /\ Done
    /\ source = SrcNoName
    /\ \E i \in PassesOf("tag") :
          /\ Tok(i, 1).type = TOKEN_TAG
          /\ Tok(i, 1).value = <<>>
          /\ iters[i].p1 = 4
(***************************************************************************)
(* The right trim of the literal branch.                                   *)
(***************************************************************************)
\* the opening delimiter that ended the literal of pass i has a '-'
OpenerHasDash(i) ==
    /\ MatchAt("re_literal_end_", source, iters[i].p2) = 3
    /\ CharAt(source, iters[i].p2 + 2) = "-"

\* C20: the literal of the literal branch is right-trimmed exactly when the
\* opening delimiter its own ReadUntil matched ends in '-'; a literal that
\* runs to the end of the source, no opening delimiter found, is emitted
\* unchanged.
C20_TrimByOwnMatch ==
    \A i \in PassesOf("literal") :
        /\ iters[i].found = Matches("re_literal_end_", iters[i].p0)
        /\ iters[i].p2 = FirstMatch("re_literal_end_", iters[i].p0)
        /\ iters[i].found =>
               Tok(i, 1).value =
                   IF OpenerHasDash(i)
                   THEN rstrip(Slice(iters[i].p0, iters[i].p2))
                   ELSE Slice(iters[i].p0, iters[i].p2)
        /\ ~iters[i].found =>
               Tok(i, 1).value = Slice(iters[i].p0, Len(source))
====
